---- MODULE Spec2Model ----
(***************************************************************************)
(* Model of assignment1_dashboard/app.py: the cleaning of the raw trip     *)
(* table (clean_data), the cached load (load_data), the sidebar filter     *)
(* (filtered_df) and the five aggregations the tabs draw.                  *)
(*                                                                         *)
(* A DataFrame is a sequence of rows; a row is a function from column      *)
(* names to cell values, with the column "index" holding the row's index   *)
(* label.  Timestamps are whole seconds counted from 2024-01-01T00:00:00,  *)
(* a Monday; dates are whole days counted from 2024-01-01.  Fares are      *)
(* whole dollars and distances whole miles.  Quotients (minutes, mph,      *)
(* means) are exact fractions [num, den] in lowest terms: floating point   *)
(* rounding is not modelled.                                               *)
(***************************************************************************)
EXTENDS Integers, Sequences, FiniteSets, TLC

(* ------------------------------------------------------------------ *)
(* Cell values                                                         *)
(* ------------------------------------------------------------------ *)

\* A missing numeric or timestamp cell (NaN, NaT, None): a reserved value
\* outside the domain of every column.
NaN == 0 - 1000000000

\* A missing cell of a text column (the labels and the zone names).
NaNText == "NaN"

\* The value of a float division by zero (pandas yields inf, it does not raise).
Inf == [num |-> 1, den |-> 0]

\* Comparisons of a column with a scalar or another column: every comparison
\* with a missing value is False.
Gt(a, b) == a # NaN /\ b # NaN /\ a > b
Ge(a, b) == a # NaN /\ b # NaN /\ a >= b
Lt(a, b) == a # NaN /\ b # NaN /\ a < b
Le(a, b) == a # NaN /\ b # NaN /\ a <= b

RECURSIVE GCD(_, _)
GCD(a, b) == IF b = 0 THEN a ELSE GCD(b, a % b)

\* The fraction n / d, d > 0, in lowest terms.
Rat(n, d) == LET g == GCD(IF n < 0 THEN 0 - n ELSE n, d)
             IN  [num |-> n \div g, den |-> d \div g]

\* Float division a / b of two fractions.
RatDiv(a, b) == IF b.num = 0 THEN Inf ELSE Rat(a.num * b.den, a.den * b.num)

RatZero == Rat(0, 1)

(* ------------------------------------------------------------------ *)
(* DataFrame helpers                                                   *)
(* ------------------------------------------------------------------ *)

\* df[name] = value(row), row by row: the column is added or overwritten.
WithColumn(row, name, value) ==
    [c \in DOMAIN row \cup {name} |-> IF c = name THEN value ELSE row[c]]

Range(s) == {s[i] : i \in 1..Len(s)}

\* The index labels of the rows of df.
Index(df) == {df[i]["index"] : i \in 1..Len(df)}

\* The columns of df (of its rows; all rows of a table have the same).
Columns(df) == UNION {DOMAIN df[i] : i \in 1..Len(df)}

\* The sum of the values of the function f.
RECURSIVE Sum(_)
Sum(f) ==
    IF DOMAIN f = {} THEN 0
    ELSE LET x == CHOOSE y \in DOMAIN f : TRUE
         IN  f[x] + Sum([y \in DOMAIN f \ {x} |-> f[y]])

SetMin(S) == CHOOSE x \in S : \A y \in S : x <= y
SetMax(S) == CHOOSE x \in S : \A y \in S : x >= y

(* ------------------------------------------------------------------ *)
(* clean_data                                                          *)
(* ------------------------------------------------------------------ *)

critical_columns == {"tpep_pickup_datetime", "tpep_dropoff_datetime",
                     "PULocationID", "DOLocationID", "fare_amount"}

MaxFare == 500

\* df.dropna(subset=critical_columns): a new table, without the rows that
\* miss a critical column.
dropna(df) == SelectSeq(df, LAMBDA r : \A c \in critical_columns : r[c] # NaN)

\* The mask with the fare bound exclusive: fare_amount < 500.
ValidTrip_exclusive_fare(r) ==
    /\ Gt(r["trip_distance"], 0)
    /\ Gt(r["fare_amount"], 0)
    /\ Lt(r["fare_amount"], MaxFare)
    /\ Ge(r["tpep_dropoff_datetime"], r["tpep_pickup_datetime"])

\* The mask of lines 26-31.
ValidTrip(r) ==
    /\ Gt(r["trip_distance"], 0)
    /\ Gt(r["fare_amount"], 0)
    /\ Le(r["fare_amount"], MaxFare)
    /\ Ge(r["tpep_dropoff_datetime"], r["tpep_pickup_datetime"])

\* df[mask] of lines 26-31: a new table.
valid_trips(df) == SelectSeq(df, ValidTrip)

\* (dropoff - pickup).dt.total_seconds() / 60
trip_duration_minutes(r) ==
    Rat(r["tpep_dropoff_datetime"] - r["tpep_pickup_datetime"], 60)

\* .dt.hour
pickup_hour(r) == (r["tpep_pickup_datetime"] % 86400) \div 3600

\* .dt.date: the calendar day of a timestamp.
DateOf(t) == t \div 86400

day_names == <<"Monday", "Tuesday", "Wednesday", "Thursday", "Friday",
               "Saturday", "Sunday">>

\* .dt.day_name()
pickup_day_of_week(r) == day_names[(DateOf(r["tpep_pickup_datetime"]) % 7) + 1]

\* The speed without the mask of line 47: the division on every row.
trip_speed_mph_unmasked(r) ==
    RatDiv(Rat(r["trip_distance"], 1),
           RatDiv(r["trip_duration_minutes"], Rat(60, 1)))

\* Lines 46-51: 0.0 everywhere, then distance / (minutes / 60) on the rows
\* of the mask trip_duration_minutes > 0.
trip_speed_mph(r) ==
    IF r["trip_duration_minutes"].num > 0
    THEN RatDiv(Rat(r["trip_distance"], 1),
                RatDiv(r["trip_duration_minutes"], Rat(60, 1)))
    ELSE RatZero

\* Lines 34-37, 40, 43 and 46-51: each assigns one column, row by row.
duration_column(df) ==
    [i \in 1..Len(df) |->
        WithColumn(df[i], "trip_duration_minutes", trip_duration_minutes(df[i]))]

hour_column(df) ==
    [i \in 1..Len(df) |-> WithColumn(df[i], "pickup_hour", pickup_hour(df[i]))]

day_column(df) ==
    [i \in 1..Len(df) |->
        WithColumn(df[i], "pickup_day_of_week", pickup_day_of_week(df[i]))]

speed_column(df) ==
    [i \in 1..Len(df) |->
        WithColumn(df[i], "trip_speed_mph", trip_speed_mph(df[i]))]

\* The derived columns after a conversion of the pickup time from UTC to
\* New York time, written back to the pickup column.
derived_columns_localized(df) ==
    speed_column(day_column(hour_column(duration_column(
        [i \in 1..Len(df) |->
            WithColumn(df[i], "tpep_pickup_datetime",
                       df[i]["tpep_pickup_datetime"] - 5 * 3600)]))))

\* Lines 33-51: the four derived columns, assigned in place to the table
\* that line 26 made.
derived_columns(df) ==
    speed_column(day_column(hour_column(duration_column(df))))

\* clean_data(df): the table the caller passed, as it is when clean_data
\* returns, and the table returned.  Lines 23 and 26 rebind the local name
\* to new tables, so the assignments of lines 34-48 write to the new table.
clean_data(df) ==
    [input  |-> df,
     result |-> derived_columns(valid_trips(dropna(df)))]

(* ------------------------------------------------------------------ *)
(* The sidebar filter                                                  *)
(* ------------------------------------------------------------------ *)

\* The dictionary of lines 120-126.
payment_labels ==
    [c \in {0, 1, 2, 3, 4} |->
        CASE c = 1 -> "Credit Card"
          [] c = 2 -> "Cash"
          [] c = 3 -> "No Charge"
          [] c = 4 -> "Dispute"
          [] c = 0 -> "Unknown"]

\* list(payment_labels.values()): the options of the multiselect.
payment_options == {payment_labels[c] : c \in DOMAIN payment_labels}

\* Series.map(payment_labels) on one cell: a key of the dictionary maps to its
\* label, every other value to a missing cell.
payment_type_label(r) ==
    IF r["payment_type"] \in DOMAIN payment_labels
    THEN payment_labels[r["payment_type"]]
    ELSE NaNText

\* Line 127: the label column.
with_payment_label(df) ==
    [i \in 1..Len(df) |->
        WithColumn(df[i], "payment_type_label", payment_type_label(df[i]))]

\* pd.to_datetime(date): midnight at the start of that date.
to_datetime(d) == IF d = NaN THEN NaN ELSE d * 86400

\* .min().date() and .max().date() of the pickup column (NaT for an empty
\* table).
min_date(df) ==
    IF df = <<>> THEN NaN
    ELSE DateOf(SetMin({df[i]["tpep_pickup_datetime"] : i \in 1..Len(df)}))
max_date(df) ==
    IF df = <<>> THEN NaN
    ELSE DateOf(SetMax({df[i]["tpep_pickup_datetime"] : i \in 1..Len(df)}))

\* The mask of lines 143-147 on one row.
date_mask(r, start, end) ==
    /\ Ge(r["tpep_pickup_datetime"], to_datetime(start))
    /\ Le(r["tpep_pickup_datetime"], to_datetime(end))

hour_mask(r, hours) ==
    /\ r["pickup_hour"] >= hours[1]
    /\ r["pickup_hour"] <= hours[2]

\* The payment part with an empty selection read as "no filter".
payment_mask_empty_is_all(r, types) ==
    types = {} \/ r["payment_type_label"] \in types

\* Series.isin(payment_types)
payment_mask(r, types) == r["payment_type_label"] \in types

filter_mask(r, dates, hours, types) ==
    /\ date_mask(r, dates[1], dates[2])
    /\ hour_mask(r, hours)
    /\ payment_mask(r, types)

\* Lines 142-148.
filter(df, dates, hours, types) ==
    SelectSeq(df, LAMBDA r : filter_mask(r, dates, hours, types))

(* ------------------------------------------------------------------ *)
(* The aggregations                                                    *)
(* ------------------------------------------------------------------ *)

MaxDistance == 20

\* The values of a column, without the missing ones.
Values(df, col) == {df[i][col] : i \in 1..Len(df)} \ {NaN}

\* The number of rows of df that hold v in col.
Count(df, col, v) == Cardinality({i \in 1..Len(df) : df[i][col] = v})

\* The sequences that hold every element of S once.
RECURSIVE Orderings(_)
Orderings(S) ==
    IF S = {} THEN {<<>>}
    ELSE UNION {{<<x>> \o t : t \in Orderings(S \ {x})} : x \in S}

\* The outcomes of sort_values on the items DOMAIN key by key[item]: pandas
\* sorts with kind="quicksort", which is not stable, so items of equal key
\* come out in any order.
RECURSIVE SortOutcomes(_, _)
SortOutcomes(key, ascending) ==
    IF DOMAIN key = {} THEN {<<>>}
    ELSE LET ks    == {key[x] : x \in DOMAIN key}
             first == IF ascending THEN SetMin(ks) ELSE SetMax(ks)
             tied  == {x \in DOMAIN key : key[x] = first}
             rest  == [x \in DOMAIN key \ tied |-> key[x]]
         IN  UNION {{p \o q : q \in SortOutcomes(rest, ascending)} :
                    p \in Orderings(tied)}

\* Series.value_counts(): the distinct values with their counts, sorted by
\* count, highest first.
value_counts(df, col) ==
    LET counts == [v \in Values(df, col) |-> Count(df, col, v)]
    IN  {[i \in 1..Len(o) |-> [PULocationID |-> o[i], Count |-> counts[o[i]]]] :
         o \in SortOutcomes(counts, FALSE)}

TopN == 10

\* The value counts without .head(10).
head_all(s) == s

\* .head(10)
head(s) == SubSeq(s, 1, IF Len(s) < TopN THEN Len(s) ELSE TopN)

RECURSIVE Flatten(_)
Flatten(ss) == IF ss = <<>> THEN <<>> ELSE Head(ss) \o Flatten(Tail(ss))

\* left.merge(zones_df[["LocationID", "Zone"]], left_on="PULocationID",
\* right_on="LocationID", how="left"): every left row, in order, once per
\* matching zone row, and once with missing cells when none matches.
merge(left, zones) ==
    Flatten([i \in 1..Len(left) |->
        LET m == SelectSeq(zones,
                     LAMBDA z : z["LocationID"] = left[i]["PULocationID"])
        IN  IF m = <<>>
            THEN <<[PULocationID |-> left[i]["PULocationID"],
                    Count |-> left[i]["Count"],
                    LocationID |-> NaN, Zone |-> NaNText]>>
            ELSE [j \in 1..Len(m) |->
                    [PULocationID |-> left[i]["PULocationID"],
                     Count |-> left[i]["Count"],
                     LocationID |-> m[j]["LocationID"],
                     Zone |-> m[j]["Zone"]]]])

\* .sort_values("Count", ascending=True) on the merged rows.
sort_by_count(rows) ==
    LET pos == [i \in 1..Len(rows) |-> rows[i]["Count"]]
    IN  {[i \in 1..Len(o) |-> rows[o[i]]] : o \in SortOutcomes(pos, TRUE)}

\* Lines 152-169: every table top_zones can be.
top_zones_outcomes(df, zones) ==
    UNION {sort_by_count(merge(head(vc), zones)) :
           vc \in value_counts(df, "PULocationID")}

\* Lines 204-208: the mean fare of every pickup hour that has rows.
hourly_fare_of(df) ==
    {[pickup_hour |-> h,
      fare_amount |->
          Rat(Sum([i \in {j \in 1..Len(df) : df[j]["pickup_hour"] = h} |->
                       df[i]["fare_amount"]]),
              Count(df, "pickup_hour", h))] :
     h \in Values(df, "pickup_hour")}

\* The histogram rows with the bound inclusive, as the title of the figure
\* has it: trips <= 20 miles.
hist_filtered_inclusive(df) ==
    SelectSeq(df, LAMBDA r : Gt(r["trip_distance"], 0)
                        /\ Le(r["trip_distance"], MaxDistance))

\* Lines 248-250.
hist_filtered_of(df) ==
    SelectSeq(df, LAMBDA r : Gt(r["trip_distance"], 0)
                        /\ Lt(r["trip_distance"], MaxDistance))

nbins == 50

\* The bin widths plotly chooses from, in miles.
bin_widths == {Rat(1, 10), Rat(1, 5), Rat(1, 2), Rat(1, 1), Rat(2, 1), Rat(5, 1)}

\* floor(x / w)
BinIndex(x, w) == (x * w.den) \div w.num

\* px.histogram(hist_filtered, x="trip_distance", nbins=50): the values fall
\* into bins of one width, the smallest of bin_widths that needs at most
\* nbins bins; the result holds the bins that have rows, with their counts.
histogram(df) ==
    IF df = <<>> THEN {}
    ELSE LET xs == Values(df, "trip_distance")
             ok == {w \in bin_widths :
                      BinIndex(SetMax(xs), w) - BinIndex(SetMin(xs), w) < nbins}
             w  == CHOOSE v \in ok : \A u \in ok : v.num * u.den <= u.num * v.den
         IN  {[bin |-> b, width |-> w,
               count |-> Cardinality({i \in 1..Len(df) :
                                        BinIndex(df[i]["trip_distance"], w) = b})] :
              b \in {BinIndex(x, w) : x \in xs}}

\* Lines 287-291: the counts of the payment codes, then the codes replaced
\* by their labels.
payment_counts_of(df) ==
    {[payment_type |-> payment_type_label([payment_type |-> c]),
      count |-> Count(df, "payment_type", c)] :
     c \in Values(df, "payment_type")}

\* The cross-tabulation over categorical keys: one row for every weekday
\* and every hour that occur, also for the pairs that have no rows.
heatmap_data_dense(df) ==
    {[pickup_day_of_week |-> k[1], pickup_hour |-> k[2],
      trip_count |-> Cardinality({i \in 1..Len(df) :
                        /\ df[i]["pickup_day_of_week"] = k[1]
                        /\ df[i]["pickup_hour"] = k[2]})] :
     k \in {df[i]["pickup_day_of_week"] : i \in 1..Len(df)}
           \X {df[i]["pickup_hour"] : i \in 1..Len(df)}}

\* Lines 325-329: groupby(["pickup_day_of_week", "pickup_hour"]).size(): one
\* row for every pair that has rows.
heatmap_data_of(df) ==
    {[pickup_day_of_week |-> k[1], pickup_hour |-> k[2],
      trip_count |-> Cardinality({i \in 1..Len(df) :
                        /\ df[i]["pickup_day_of_week"] = k[1]
                        /\ df[i]["pickup_hour"] = k[2]})] :
     k \in {<<df[i]["pickup_day_of_week"], df[i]["pickup_hour"]>> :
            i \in 1..Len(df)}}

(* ------------------------------------------------------------------ *)
(* Inputs                                                              *)
(* ------------------------------------------------------------------ *)

\* The longest raw table of mixed rows.
MaxRows == 2

\* The number of pickup zones beyond TopN in the raw tables of many zones.
ExtraZones == 1

NumZones == TopN + ExtraZones

\* The timestamp of hour h, minute m of day d.
TS(d, h, m) == d * 86400 + h * 3600 + m * 60

\* A raw row (without its index label).
Trip(pickup, dropoff, pu, do, distance, fare, payment) ==
    [tpep_pickup_datetime |-> pickup, tpep_dropoff_datetime |-> dropoff,
     PULocationID |-> pu, DOLocationID |-> do, trip_distance |-> distance,
     fare_amount |-> fare, payment_type |-> payment]

\* The raw rows the mixed tables are made of: valid trips on three days, at
\* the bounds of the fare, distance and duration rules, and rows that break
\* one rule each.
RawRowKinds ==
    { Trip(TS(0, 8, 0), TS(0, 8, 10), 5, 7, 2, 10, 1),
      Trip(TS(1, 0, 0), TS(1, 0, 0), 6, 7, 20, MaxFare, 2),
      Trip(TS(1, 8, 30), TS(1, 9, 15), 5, 6, 25, 60, 5),
      Trip(TS(2, 23, 30), TS(3, 0, 10), 7, 5, 1, 8, 0),
      Trip(TS(0, 8, 0), TS(0, 7, 59), 5, 7, 1, 5, 1),
      Trip(TS(0, 8, 0), TS(0, 8, 10), 5, 7, 2, MaxFare + 1, 1),
      Trip(TS(0, 8, 0), TS(0, 8, 10), 5, 7, 2, 0, 1),
      Trip(TS(0, 8, 0), TS(0, 8, 10), 5, 7, 0, 10, 1),
      Trip(TS(0, 8, 0), TS(0, 8, 10), 5, 7, NaN, 10, 1),
      Trip(NaN, TS(0, 8, 10), 5, 7, 2, 10, 1),
      Trip(TS(0, 8, 0), NaN, 5, 7, 2, 10, 1),
      Trip(TS(0, 8, 0), TS(0, 8, 10), NaN, 7, 2, 10, 1),
      Trip(TS(0, 8, 0), TS(0, 8, 10), 5, NaN, 2, 10, 1),
      Trip(TS(0, 8, 0), TS(0, 8, 10), 5, 7, 2, NaN, 1) }

\* The table of the rows s, labelled 0, 1, ... in order.
Table(s) == [i \in 1..Len(s) |-> WithColumn(s[i], "index", i - 1)]

MixedTables == {Table(s) : s \in UNION {[1..n -> RawRowKinds] : n \in 0..MaxRows}}

\* The number of trips picked up in zone k in the table of many zones whose
\* tie is at p: zone k has k trips, but zone p has as many as zone p - 1.
ZoneTrips(k, p) == IF k = p /\ k > 1 THEN k - 1 ELSE k

RECURSIVE ZoneRows(_, _)
ZoneRows(k, p) ==
    IF k = 0 THEN <<>>
    ELSE [i \in 1..ZoneTrips(k, p) |->
             Trip(TS(0, 8, 0), TS(0, 8, 10), k, 7, 2, 10, 1)]
         \o ZoneRows(k - 1, p)

\* Where the tables of many zones have their tie: nowhere (1), between the
\* two zones of fewest trips, and between the two zones of most trips.
ZoneTies == {1, 2, NumZones}

\* Raw tables with NumZones pickup zones, the busiest zone first: the trips
\* of ZoneRows on the first day and one trip on the next day.
ZoneTables ==
    {Table(ZoneRows(NumZones, p)
           \o <<Trip(TS(1, 8, 0), TS(1, 8, 10), NumZones, 7, 2, 10, 1)>>) :
     p \in ZoneTies}

\* taxi_zone_lookup.csv: one row for every zone; LocationID is its key.
ZoneLookup == [k \in 1..NumZones |->
                  [LocationID |-> k, Zone |-> "Zone " \o ToString(k)]]

\* The lookup tables: the full one, and one that lacks zone 5.
ZoneLookups == {ZoneLookup, SelectSeq(ZoneLookup, LAMBDA z : z["LocationID"] # 5)}

\* The values the date_input can return for the cleaned table c: the pairs
\* of dates between min_date and max_date, and a single date while the user
\* has picked only the start of the range.
DateChoices(c) ==
    IF c = <<>> THEN {<<NaN, NaN>>}
    ELSE LET days == min_date(c)..max_date(c)
         IN  {r \in days \X days : r[1] <= r[2]} \cup {<<a>> : a \in days}

\* The slider positions the model tries.
HourPoints == {0, 8, 23}

HourChoices == {r \in HourPoints \X HourPoints : r[1] <= r[2]}

\* The multiselect selections the model tries.
PaymentChoices == SUBSET {"Credit Card", "Unknown"} \cup {payment_options}

(* ------------------------------------------------------------------ *)
(* The session                                                         *)
(* ------------------------------------------------------------------ *)

VARIABLES
    raw,            \* the table load_data passes to clean_data (line 101)
    zones_df,       \* the zone lookup table
    cache,          \* the cleaned table st.cache_data holds for load_data
    status,         \* "init" before the first run, then how the last run ended
    df,             \* the script's table: load_data's return value, labelled
    date_range,     \* the sidebar widgets
    hour_range,
    payment_types,
    filtered_df,
    top_zones,
    hourly_fare,
    hist_filtered,
    fig3,           \* the bins of the histogram
    payment_counts,
    heatmap_data

vars == <<raw, zones_df, cache, status, df, date_range, hour_range,
          payment_types, filtered_df, top_zones, hourly_fare, hist_filtered,
          fig3, payment_counts, heatmap_data>>

Init ==
    /\ \/ raw \in MixedTables /\ zones_df = ZoneLookup
       \/ raw \in ZoneTables /\ zones_df \in ZoneLookups
    /\ cache = <<>>
    /\ status = "init"
    /\ df = <<>>
    /\ date_range = <<>>
    /\ hour_range = <<>>
    /\ payment_types = {}
    /\ filtered_df = <<>>
    /\ top_zones = <<>>
    /\ hourly_fare = {}
    /\ hist_filtered = <<>>
    /\ fig3 = {}
    /\ payment_counts = {}
    /\ heatmap_data = {}

\* The tables of a cache that hands out the cached object itself (as
\* st.cache_resource does): the label column lands in the cached table.
script_tables_shared(c) ==
    [cached |-> with_payment_label(c), df |-> with_payment_label(c)]

\* Lines 106 and 127: load_data() hands the script a copy of the cached
\* table (st.cache_data stores the return value serialized), and the script
\* adds the label column to its copy.
script_tables(c) == [cached |-> c, df |-> with_payment_label(c)]

\* A run that stops with an exception draws no tab.
Stopped(how) ==
    /\ status' = how
    /\ filtered_df' = <<>>
    /\ top_zones' = <<>>
    /\ hourly_fare' = {}
    /\ hist_filtered' = <<>>
    /\ fig3' = {}
    /\ payment_counts' = {}
    /\ heatmap_data' = {}

\* Lines 106-381, one run of the script over the cached table c with the
\* widgets at dates, hours and types.
Run(c, dates, hours, types) ==
    /\ cache' = script_tables(c).cached
    /\ df' = script_tables(c).df
    /\ date_range' = dates
    /\ hour_range' = hours
    /\ payment_types' = types
    /\ IF Len(dates) < 2
       THEN Stopped("IndexError")
       ELSE LET f == filter(script_tables(c).df, dates, hours, types)
            IN  /\ status' = "ok"
                /\ filtered_df' = f
                /\ top_zones' \in top_zones_outcomes(f, zones_df)
                /\ hourly_fare' = hourly_fare_of(f)
                /\ hist_filtered' = hist_filtered_of(f)
                /\ fig3' = histogram(hist_filtered_of(f))
                /\ payment_counts' = payment_counts_of(f)
                /\ heatmap_data' = heatmap_data_of(f)

\* The first run of the script: load_data misses the cache, cleans the raw
\* table and caches the result; the widgets take their defaults.
FirstRun ==
    /\ status = "init"
    /\ raw' = clean_data(raw).input
    /\ UNCHANGED zones_df
    /\ LET c == clean_data(raw).result
       IN  \/ Run(c, <<min_date(c), max_date(c)>>, <<0, 23>>, payment_options)
           \/ /\ c = <<>>
              /\ cache' = c
              /\ df' = script_tables(c).df
              /\ UNCHANGED <<date_range, hour_range, payment_types>>
              /\ Stopped("date_input")

\* The user changes a widget; the script runs again, on the cached table.
ChangeDateRange ==
    /\ status \in {"ok", "IndexError"}
    /\ \E dates \in DateChoices(cache) :
          /\ dates # date_range
          /\ Run(cache, dates, hour_range, payment_types)
    /\ UNCHANGED <<raw, zones_df>>

ChangeHourRange ==
    /\ status \in {"ok", "IndexError"}
    /\ \E hours \in HourChoices :
          /\ hours # hour_range
          /\ Run(cache, date_range, hours, payment_types)
    /\ UNCHANGED <<raw, zones_df>>

ChangePaymentTypes ==
    /\ status \in {"ok", "IndexError"}
    /\ \E types \in PaymentChoices :
          /\ types # payment_types
          /\ Run(cache, date_range, hour_range, types)
    /\ UNCHANGED <<raw, zones_df>>

Next == FirstRun \/ ChangeDateRange \/ ChangeHourRange \/ ChangePaymentTypes

Spec == Init /\ [][Next]_vars

(* ------------------------------------------------------------------ *)
(* Properties                                                          *)
(* ------------------------------------------------------------------ *)

Loaded == status # "init"

\* The rule of the cleaned rows, stated on one row.
Clean(r) ==
    /\ \A c \in {"tpep_pickup_datetime", "tpep_dropoff_datetime",
                 "PULocationID", "DOLocationID", "fare_amount"} : r[c] # NaN
    /\ r["trip_distance"] # NaN
    /\ r["trip_distance"] > 0
    /\ r["fare_amount"] > 0
    /\ r["fare_amount"] <= 500
    /\ r["tpep_dropoff_datetime"] >= r["tpep_pickup_datetime"]

\* C1: every row of the output of clean_data misses none of the five
\* required fields and has trip_distance > 0, 0 < fare_amount <= 500 and
\* dropoff >= pickup, and every raw row that satisfies all of these is in
\* the output, with its raw cells.
C1_CleanedRows ==
    Loaded =>
        /\ \A i \in 1..Len(cache) : Clean(cache[i])
        /\ \A i \in 1..Len(raw) :
              Clean(raw[i]) =>
                  \E j \in 1..Len(cache) :
                      \A c \in DOMAIN raw[i] : cache[j][c] = raw[i][c]

\* C1 witness: a fare of 500 on a trip of zero duration is kept while a fare
\* of 501 is dropped.
C1_Witness ==
    /\ Loaded
    /\ Len(cache) = 1
    /\ cache[1]["fare_amount"] = 500
    /\ cache[1]["tpep_dropoff_datetime"] = cache[1]["tpep_pickup_datetime"]
    /\ \E i \in 1..Len(raw) : raw[i]["fare_amount"] = 501

\* C2: a row passes the date part of the filter exactly when
\* start <= date(pickup_time) <= end, whatever the time of day of the pickup.
C2_DateInclusive ==
    status = "ok" =>
        \A i \in 1..Len(df) :
            (/\ date_range[1] <= DateOf(df[i]["tpep_pickup_datetime"])
             /\ DateOf(df[i]["tpep_pickup_datetime"]) <= date_range[2]
             /\ hour_mask(df[i], hour_range)
             /\ payment_mask(df[i], payment_types))
            <=> df[i]["index"] \in Index(filtered_df)

\* C3: every payment code outside the enumeration has the label "Unknown",
\* and its row passes the payment part of the filter exactly when "Unknown"
\* is selected.
C3_UnknownLabel ==
    status = "ok" =>
        \A i \in 1..Len(df) :
            df[i]["payment_type"] \notin {0, 1, 2, 3, 4} =>
                /\ df[i]["payment_type_label"] = "Unknown"
                /\ payment_mask(df[i], payment_types)
                       <=> "Unknown" \in payment_types

\* The pickup zones of the filtered rows that top_zones does not hold.
LeftOut ==
    Values(filtered_df, "PULocationID")
        \ {top_zones[i]["PULocationID"] : i \in 1..Len(top_zones)}

\* C4 as claimed: at most 10 entries, the keys with the highest counts,
\* ascending by count, and keys of equal count in ascending key order, in
\* the output and in the choice of the keys that enter.
C4_KeyOrderTies ==
    status = "ok" =>
        /\ Len(top_zones) <= 10
        /\ \A i, j \in 1..Len(top_zones) :
              i < j =>
                  \/ top_zones[i]["Count"] < top_zones[j]["Count"]
                  \/ /\ top_zones[i]["Count"] = top_zones[j]["Count"]
                     /\ top_zones[i]["PULocationID"] < top_zones[j]["PULocationID"]
        /\ \A k \in LeftOut : \A i \in 1..Len(top_zones) :
              \/ Count(filtered_df, "PULocationID", k) < top_zones[i]["Count"]
              \/ /\ Count(filtered_df, "PULocationID", k) = top_zones[i]["Count"]
                 /\ top_zones[i]["PULocationID"] < k

\* C4 amended: top_zones has at most 10 entries, one for each of
\* min(10, number of keys) distinct keys with its count; no key left out has
\* more rows than a key in the table; the entries ascend by count.
C4_TopZones ==
    status = "ok" =>
        /\ Len(top_zones) <= 10
        /\ \/ Len(top_zones) = 10
           \/ LeftOut = {}
        /\ \A i \in 1..Len(top_zones) :
              /\ top_zones[i]["Count"] =
                     Count(filtered_df, "PULocationID", top_zones[i]["PULocationID"])
              /\ top_zones[i]["Count"] > 0
        /\ \A i, j \in 1..Len(top_zones) :
              i < j =>
                  /\ top_zones[i]["Count"] <= top_zones[j]["Count"]
                  /\ top_zones[i]["PULocationID"] # top_zones[j]["PULocationID"]
        /\ \A k \in LeftOut : \A i \in 1..Len(top_zones) :
              Count(filtered_df, "PULocationID", k) <= top_zones[i]["Count"]

\* C4 witness: more than 10 zones in the filtered rows, 10 in the table, and
\* two entries of equal count with the higher key first.
C4_Witness ==
    /\ status = "ok"
    /\ Cardinality(Values(filtered_df, "PULocationID")) > 10
    /\ Len(top_zones) = 10
    /\ \E i \in 1..9 :
          /\ top_zones[i]["Count"] = top_zones[i + 1]["Count"]
          /\ top_zones[i]["PULocationID"] > top_zones[i + 1]["PULocationID"]

\* C5: the counts of the (weekday, hour) table sum to the number of filtered
\* rows, and no cell has count zero.
C5_HeatmapSum ==
    status = "ok" =>
        /\ Sum([c \in heatmap_data |-> c["trip_count"]]) = Len(filtered_df)
        /\ \A c \in heatmap_data : c["trip_count"] > 0

\* C5 witness: filtered rows in two cells that differ in weekday and hour.
C5_Witness ==
    /\ status = "ok"
    /\ Len(filtered_df) = 2
    /\ \E c, d \in heatmap_data :
          /\ c["pickup_day_of_week"] # d["pickup_day_of_week"]
          /\ c["pickup_hour"] # d["pickup_hour"]

\* The filter specifications the narrowing is checked over.
FilterSpecs ==
    {d \in DateChoices(cache) : Len(d) = 2} \X HourChoices \X PaymentChoices

\* C6: the filtered view is a subset of the cleaned rows; every row that
\* passes the current specification passes every specification that is
\* wider in each component; no payment label selected, and an hour range
\* with start > end, both give an empty view.
C6_FilterNarrows ==
    status = "ok" =>
        /\ Range(filtered_df) \subseteq Range(df)
        /\ \A w \in FilterSpecs :
              (/\ w[1][1] <= date_range[1] /\ date_range[2] <= w[1][2]
               /\ w[2][1] <= hour_range[1] /\ hour_range[2] <= w[2][2]
               /\ payment_types \subseteq w[3])
              => Index(filtered_df) \subseteq Index(filter(df, w[1], w[2], w[3]))
        /\ filter(df, date_range, hour_range, {}) = <<>>
        /\ \A h \in HourPoints \X HourPoints :
              h[1] > h[2] => filter(df, date_range, h, payment_types) = <<>>

\* C6 witness: a view that holds some of the cleaned rows and not all.
C6_Witness ==
    /\ status = "ok"
    /\ Len(filtered_df) = 1
    /\ Len(df) = 2
    /\ hour_range # <<0, 23>>

\* C7: cleaning the cleaned table gives the same rows with the same derived
\* fields.
C7_Idempotent == Loaded => clean_data(cache).result = cache

\* C7 witness: a cleaned table of two rows, one of zero duration.
C7_Witness ==
    /\ Loaded
    /\ Len(cache) = 2
    /\ \E i \in 1..2 : cache[i]["trip_duration_minutes"] = RatZero
    /\ \E i \in 1..2 : cache[i]["trip_duration_minutes"] # RatZero

\* C8: no run changes the raw table, and after every run the cached table
\* is the table clean_data made of it, rows and columns.
C8_NoMutation == [][raw' = raw /\ cache' = clean_data(raw).result]_vars

\* C8 witness: after a change of the hour range the script's table has the
\* label column and the cached table has not.
C8_Witness ==
    /\ status = "ok"
    /\ hour_range # <<0, 23>>
    /\ "payment_type_label" \in Columns(df)
    /\ "payment_type_label" \notin Columns(cache)

C10_Speed ==
    \A i \in 1..Len(cache) :
        LET r == cache[i]
            m == r["trip_duration_minutes"]
            v == r["trip_speed_mph"]
        IN  /\ v # Inf
            /\ v.den > 0
            /\ m.num = 0 => v = [num |-> 0, den |-> 1]
            /\ m.num > 0 => v.num * m.num = r["trip_distance"] * 60 * m.den * v.den
            /\ (/\ r["trip_distance"] = 2
                /\ r["tpep_pickup_datetime"] = 8 * 3600
                /\ r["tpep_dropoff_datetime"] = 8 * 3600 + 10 * 60)
               => /\ m = [num |-> 10, den |-> 1]
                  /\ v = [num |-> 12, den |-> 1]
                  /\ r["pickup_hour"] = 8
                  /\ r["pickup_day_of_week"] = "Monday"

\* C10 witness: the trip of the example beside a trip of zero duration.
C10_Witness ==
    /\ Len(cache) = 2
    /\ \E i \in 1..2 : cache[i]["trip_speed_mph"] = [num |-> 12, den |-> 1]
    /\ \E i \in 1..2 : cache[i]["trip_duration_minutes"].num = 0

====
